---- MODULE Spec2Model ----
(***************************************************************************)
(* Model of the paired-binary hierarchy engine: InitialPattern (pattern.rs) *)
(* and Propagator (propagator.rs).  A caller builds a pattern, wraps it in  *)
(* a propagator and issues independent queries; each query is one action    *)
(* that records the call and the value it returns.  PairedEntity           *)
(* (entity.rs) is queried the same way.  The wasm binding (wasm_api.rs)    *)
(* keeps one installed propagator and a u32 seed counter; WasmSpec is a    *)
(* page calling setup_propagator and generate_random_member.               *)
(*                                                                         *)
(* A HashSet<BigUint> is modelled as a duplicate-free sequence: the order   *)
(* in which this instance of the set iterates.  The order is unspecified    *)
(* (the default hasher is keyed per process), so every permutation of the   *)
(* elements is a possible set.                                              *)
(***************************************************************************)
EXTENDS Integers, Sequences, FiniteSets, TLC

\* ---------------------------------------------------------------- bounds
MaxBaseBits == 4     \* n_base_bits handed to InitialPattern::new is in 0..MaxBaseBits
MaxValue == 4        \* base values and components are drawn from 0..MaxValue
MaxSetSize == 2      \* a base set has at most this many elements
MaxMemberBits == 8   \* widths handed to is_member / decompose / generate
MaxLevelBits == 32   \* widths handed to the level-validity predicate
MaxComponents == 3   \* length of a compose_from_base input
MaxMemberComponents == 4   \* length of a compose_from_base input made of base values only
MaxEntityBits == 4   \* n_bits handed to the PairedEntity constructors is in 0..MaxEntityBits
MaxTokens == 1       \* comma-separated segments of a setup_propagator string
MaxBindingBaseBits == 1   \* n_base_bits handed to setup_propagator is in 0..MaxBindingBaseBits
MaxBindingBits == 1  \* target_n_bits handed to generate_random_member is in 0..MaxBindingBits
MaxCalls == 2        \* generate_random_member calls in one run of the binding

VARIABLES
    propagator,   \* the Propagator the caller holds (None before construction)
    call,         \* the call in progress / just made: operation and arguments
    result,       \* what that call returned
    rerun,        \* what the same sampling call returns in a second run of the program
    GLOBAL_PROPAGATOR,   \* wasm binding: the installed propagator (None before setup)
    GLOBAL_RNG_SEED,     \* wasm binding: the u32 seed counter
    generated,    \* history: the generate_random_member calls made so far
    earlier       \* history: the generate_random_member call that returned last

\* the state of the wasm binding and the history kept about its calls
binding == <<GLOBAL_PROPAGATOR, GLOBAL_RNG_SEED, generated, earlier>>

vars == <<propagator, call, result, rerun, GLOBAL_PROPAGATOR, GLOBAL_RNG_SEED, generated, earlier>>

None == [kind |-> "None"]

\* ------------------------------------------------------------ arithmetic
Pow2(n) == 2 ^ n

\* BigUint `a >> n`
Shr(a, n) == a \div Pow2(n)

\* BigUint `a << n`
Shl(a, n) == a * Pow2(n)

RECURSIVE BitAnd(_, _)
\* BigUint `a & b`
BitAnd(a, b) ==
    IF a = 0 \/ b = 0 THEN 0
    ELSE ((a % 2) * (b % 2)) + 2 * BitAnd(a \div 2, b \div 2)

RECURSIVE BitOr(_, _)
\* BigUint `a | b`
BitOr(a, b) ==
    IF a = 0 THEN b
    ELSE IF b = 0 THEN a
    ELSE (IF a % 2 = 1 \/ b % 2 = 1 THEN 1 ELSE 0) + 2 * BitOr(a \div 2, b \div 2)

RECURSIVE count_ones(_)
\* usize::count_ones
count_ones(k) == IF k = 0 THEN 0 ELSE (k % 2) + count_ones(k \div 2)

\* usize::is_power_of_two
is_power_of_two(k) == count_ones(k) = 1

\* ---------------------------------------------------------------- HashSet
\* the elements of a set given by its iteration order
Elems(hs) == {hs[i] : i \in 1..Len(hs)}

\* HashSet::contains
contains(hs, v) == \E i \in 1..Len(hs) : hs[i] = v

\* HashSet::is_empty
is_empty(hs) == Len(hs) = 0

\* every iteration order a HashSet holding the elements S can have
IterationOrders(S) ==
    {f \in [1..Cardinality(S) -> S] : \A i, j \in 1..Cardinality(S) : f[i] = f[j] => i = j}

Min(S) == CHOOSE m \in S : \A k \in S : m <= k

\* ----------------------------------------------------------------- results
Ok(v) == [kind |-> "Ok", val |-> v]

NonPositiveNBits(n) == [kind |-> "NonPositiveNBits", n_bits |-> n]

EmptySBaseValues == [kind |-> "EmptySBaseValues"]

ValueExceedsNBaseBits(v, n, m) ==
    [kind |-> "ValueExceedsNBaseBits", value |-> v, n_bits |-> n, max_val |-> m]

InvalidHierarchicalLevel(t, b) ==
    [kind |-> "InvalidHierarchicalLevel", target_n_bits |-> t, base_n_bits |-> b]

ValueTooLargeForNBits(v, n) == [kind |-> "ValueTooLargeForNBits", value |-> v, n_bits |-> n]

NotAMember(v) == [kind |-> "NotAMember", value |-> v]

InvalidBaseComponent(v) == [kind |-> "InvalidBaseComponent", value |-> v]

InvalidComponentCount(n) == [kind |-> "InvalidComponentCount", count |-> n]

EmptySBaseForRandomGeneration == [kind |-> "EmptySBaseForRandomGeneration"]

NonComplementaryPair(v1, v2, n) ==
    [kind |-> "NonComplementaryPair", val1 |-> v1, val2_complement |-> v2, n_bits |-> n]

IsOk(r) == r.kind = "Ok"

\* ------------------------------------------------------------ PairedEntity
PairedEntity(x, x_prime, n_bits) == [x |-> x, x_prime |-> x_prime, n_bits |-> n_bits]

\* PairedEntity::new taking the complement from 2^n_bits instead of 2^n_bits - 1
PairedEntity_new_from_limit(x, n_bits) ==
    IF n_bits = 0 THEN NonPositiveNBits(n_bits)
    ELSE
        LET limit_exclusive == Shl(1, n_bits)
        IN  IF x >= limit_exclusive THEN ValueTooLargeForNBits(x, n_bits)
            ELSE Ok(PairedEntity(x, limit_exclusive - x, n_bits))

\* PairedEntity::new
PairedEntity_new(x, n_bits) ==
    IF n_bits = 0 THEN NonPositiveNBits(n_bits)
    ELSE
        LET limit_exclusive == Shl(1, n_bits)
            all_ones == limit_exclusive - 1
            x_prime == all_ones - x
        IN  IF x >= limit_exclusive THEN ValueTooLargeForNBits(x, n_bits)
            ELSE Ok(PairedEntity(x, x_prime, n_bits))

\* new_canonical_from_x keeping the given value as x whatever its complement
new_canonical_from_x_unordered(value, n_bits) ==
    IF n_bits = 0 THEN NonPositiveNBits(n_bits)
    ELSE
        LET limit_exclusive == Shl(1, n_bits)
            all_ones == limit_exclusive - 1
            complement == all_ones - value
        IN  IF value >= limit_exclusive THEN ValueTooLargeForNBits(value, n_bits)
            ELSE Ok(PairedEntity(value, complement, n_bits))

\* PairedEntity::new_canonical_from_x
new_canonical_from_x(value, n_bits) ==
    IF n_bits = 0 THEN NonPositiveNBits(n_bits)
    ELSE
        LET limit_exclusive == Shl(1, n_bits)
            all_ones == limit_exclusive - 1
            complement == all_ones - value
        IN  IF value >= limit_exclusive THEN ValueTooLargeForNBits(value, n_bits)
            ELSE IF value <= complement
            THEN Ok(PairedEntity(value, complement, n_bits))
            ELSE Ok(PairedEntity(complement, value, n_bits))

\* new_from_pair_assert_canonical comparing the sum with 2^n_bits
new_from_pair_assert_canonical_sum_limit(val1, val2_supposed_complement, n_bits) ==
    IF n_bits = 0 THEN NonPositiveNBits(n_bits)
    ELSE
        LET limit_exclusive == Shl(1, n_bits)
        IN  IF val1 >= limit_exclusive THEN ValueTooLargeForNBits(val1, n_bits)
            ELSE IF val2_supposed_complement >= limit_exclusive
            THEN ValueTooLargeForNBits(val2_supposed_complement, n_bits)
            ELSE IF val1 + val2_supposed_complement # limit_exclusive
            THEN NonComplementaryPair(val1, val2_supposed_complement, n_bits)
            ELSE IF val1 <= val2_supposed_complement
            THEN Ok(PairedEntity(val1, val2_supposed_complement, n_bits))
            ELSE Ok(PairedEntity(val2_supposed_complement, val1, n_bits))

\* PairedEntity::new_from_pair_assert_canonical
new_from_pair_assert_canonical(val1, val2_supposed_complement, n_bits) ==
    IF n_bits = 0 THEN NonPositiveNBits(n_bits)
    ELSE
        LET limit_exclusive == Shl(1, n_bits)
            all_ones == limit_exclusive - 1
        IN  IF val1 >= limit_exclusive THEN ValueTooLargeForNBits(val1, n_bits)
            ELSE IF val2_supposed_complement >= limit_exclusive
            THEN ValueTooLargeForNBits(val2_supposed_complement, n_bits)
            ELSE IF val1 + val2_supposed_complement # all_ones
            THEN NonComplementaryPair(val1, val2_supposed_complement, n_bits)
            ELSE IF val1 <= val2_supposed_complement
            THEN Ok(PairedEntity(val1, val2_supposed_complement, n_bits))
            ELSE Ok(PairedEntity(val2_supposed_complement, val1, n_bits))

\* ---------------------------------------------------------- InitialPattern
InitialPattern(s_base_values, n_base_bits) ==
    [s_base_values |-> s_base_values, n_base_bits |-> n_base_bits]

\* InitialPattern::new rejecting only values above 2^n_base_bits
InitialPattern_new_limit_inclusive(s_base_values, n_base_bits) ==
    IF n_base_bits = 0 THEN NonPositiveNBits(n_base_bits)
    ELSE IF is_empty(s_base_values) THEN EmptySBaseValues
    ELSE
        LET limit_exclusive == Shl(1, n_base_bits)
            bad == {i \in 1..Len(s_base_values) : s_base_values[i] > limit_exclusive}
        IN  IF bad # {}
            THEN ValueExceedsNBaseBits(s_base_values[Min(bad)], n_base_bits, limit_exclusive - 1)
            ELSE Ok(InitialPattern(s_base_values, n_base_bits))

\* InitialPattern::new
InitialPattern_new(s_base_values, n_base_bits) ==
    IF n_base_bits = 0 THEN NonPositiveNBits(n_base_bits)
    ELSE IF is_empty(s_base_values) THEN EmptySBaseValues
    ELSE
        LET limit_exclusive == Shl(1, n_base_bits)
            bad == {i \in 1..Len(s_base_values) : s_base_values[i] >= limit_exclusive}
        IN  IF bad # {}
            THEN ValueExceedsNBaseBits(s_base_values[Min(bad)], n_base_bits, limit_exclusive - 1)
            ELSE Ok(InitialPattern(s_base_values, n_base_bits))

\* Propagator::new
Propagator_new(initial_pattern) == [initial_pattern |-> initial_pattern]

\* -------------------------------------------------------------- Propagator
\* is_valid_hierarchical_level accepting every multiple of the base width
is_valid_hierarchical_level_any_multiple(self, target_n_bits) ==
    LET base_n_bits == self.initial_pattern.n_base_bits
    IN  IF target_n_bits < base_n_bits THEN FALSE
        ELSE IF target_n_bits = base_n_bits THEN TRUE
        ELSE IF base_n_bits = 0 THEN FALSE
        ELSE target_n_bits % base_n_bits = 0

\* Propagator::is_valid_hierarchical_level
is_valid_hierarchical_level(self, target_n_bits) ==
    LET base_n_bits == self.initial_pattern.n_base_bits
    IN  IF target_n_bits < base_n_bits THEN FALSE
        ELSE IF target_n_bits = base_n_bits THEN TRUE
        ELSE IF base_n_bits = 0 THEN FALSE
        ELSE IF target_n_bits % base_n_bits # 0 THEN FALSE
        ELSE is_power_of_two(target_n_bits \div base_n_bits)

RECURSIVE _is_member_recursive_either_half(_, _, _)
\* _is_member_recursive accepting a value when one half is a member
_is_member_recursive_either_half(self, x_current, n_current_bits) ==
    IF n_current_bits = self.initial_pattern.n_base_bits
    THEN contains(self.initial_pattern.s_base_values, x_current)
    ELSE
        LET n_half_bits == n_current_bits \div 2
            mask == Shl(1, n_half_bits) - 1
            h_upper == Shr(x_current, n_half_bits)
            h_lower == BitAnd(x_current, mask)
        IN  _is_member_recursive_either_half(self, h_upper, n_half_bits)
            \/ _is_member_recursive_either_half(self, h_lower, n_half_bits)

RECURSIVE _is_member_recursive(_, _, _)
\* Propagator::_is_member_recursive
_is_member_recursive(self, x_current, n_current_bits) ==
    IF n_current_bits = self.initial_pattern.n_base_bits
    THEN contains(self.initial_pattern.s_base_values, x_current)
    ELSE
        LET n_half_bits == n_current_bits \div 2
            mask == Shl(1, n_half_bits) - 1
            h_upper == Shr(x_current, n_half_bits)
            h_lower == BitAnd(x_current, mask)
        IN  _is_member_recursive(self, h_upper, n_half_bits)
            /\ _is_member_recursive(self, h_lower, n_half_bits)

\* is_member validating the level before the range of the value
is_member_level_first(self, x_target, n_target_bits) ==
    IF n_target_bits = 0 \/ ~is_valid_hierarchical_level(self, n_target_bits)
    THEN InvalidHierarchicalLevel(n_target_bits, self.initial_pattern.n_base_bits)
    ELSE IF x_target >= Shl(1, n_target_bits)
    THEN ValueTooLargeForNBits(x_target, n_target_bits)
    ELSE Ok(_is_member_recursive(self, x_target, n_target_bits))

\* Propagator::is_member
is_member(self, x_target, n_target_bits) ==
    IF n_target_bits = 0
    THEN InvalidHierarchicalLevel(n_target_bits, self.initial_pattern.n_base_bits)
    ELSE IF x_target >= Shl(1, n_target_bits)
    THEN ValueTooLargeForNBits(x_target, n_target_bits)
    ELSE IF ~is_valid_hierarchical_level(self, n_target_bits)
    THEN InvalidHierarchicalLevel(n_target_bits, self.initial_pattern.n_base_bits)
    ELSE Ok(_is_member_recursive(self, x_target, n_target_bits))

RECURSIVE _decompose_recursive_collect_lower_first(_, _, _, _)
\* _decompose_recursive_collect visiting the lower half before the upper half
_decompose_recursive_collect_lower_first(self, current_x, current_n_bits, components) ==
    IF current_n_bits = self.initial_pattern.n_base_bits
    THEN Append(components, current_x)
    ELSE
        LET n_half_bits == current_n_bits \div 2
            mask == Shl(1, n_half_bits) - 1
            h_upper == Shr(current_x, n_half_bits)
            h_lower == BitAnd(current_x, mask)
            after_lower == _decompose_recursive_collect_lower_first(self, h_lower, n_half_bits, components)
        IN  _decompose_recursive_collect_lower_first(self, h_upper, n_half_bits, after_lower)

RECURSIVE _decompose_recursive_collect(_, _, _, _)
\* Propagator::_decompose_recursive_collect; returns `components` after the pushes
_decompose_recursive_collect(self, current_x, current_n_bits, components) ==
    IF current_n_bits = self.initial_pattern.n_base_bits
    THEN Append(components, current_x)
    ELSE
        LET n_half_bits == current_n_bits \div 2
            mask == Shl(1, n_half_bits) - 1
            h_upper == Shr(current_x, n_half_bits)
            h_lower == BitAnd(current_x, mask)
            after_upper == _decompose_recursive_collect(self, h_upper, n_half_bits, components)
        IN  _decompose_recursive_collect(self, h_lower, n_half_bits, after_upper)

\* decompose_to_base without the NotAMember return
decompose_to_base_unchecked(self, x_target, n_target_bits) ==
    LET m == is_member(self, x_target, n_target_bits)
    IN  IF ~IsOk(m) THEN m
        ELSE Ok(_decompose_recursive_collect(self, x_target, n_target_bits, <<>>))

\* Propagator::decompose_to_base
decompose_to_base(self, x_target, n_target_bits) ==
    LET m == is_member(self, x_target, n_target_bits)
    IN  IF ~IsOk(m) THEN m
        ELSE IF ~m.val THEN NotAMember(x_target)
        ELSE Ok(_decompose_recursive_collect(self, x_target, n_target_bits, <<>>))

RECURSIVE _compose_recursive_unshifted(_, _)
\* _compose_recursive shifting the upper half by the base width instead of
\* the width of the half
_compose_recursive_unshifted(self, components_slice) ==
    IF Len(components_slice) = 1
    THEN <<components_slice[1], self.initial_pattern.n_base_bits>>
    ELSE
        LET mid == Len(components_slice) \div 2
            upper == _compose_recursive_unshifted(self, SubSeq(components_slice, 1, mid))
            lower == _compose_recursive_unshifted(self, SubSeq(components_slice, mid + 1, Len(components_slice)))
            composed_val == BitOr(Shl(upper[1], self.initial_pattern.n_base_bits), lower[1])
        IN  <<composed_val, upper[2] * 2>>

RECURSIVE _compose_recursive_lower_first(_, _)
\* _compose_recursive placing the second half of the slice above the first
_compose_recursive_lower_first(self, components_slice) ==
    IF Len(components_slice) = 1
    THEN <<components_slice[1], self.initial_pattern.n_base_bits>>
    ELSE
        LET mid == Len(components_slice) \div 2
            upper == _compose_recursive_lower_first(self, SubSeq(components_slice, 1, mid))
            lower == _compose_recursive_lower_first(self, SubSeq(components_slice, mid + 1, Len(components_slice)))
            composed_val == BitOr(Shl(lower[1], upper[2]), upper[1])
        IN  <<composed_val, upper[2] * 2>>

RECURSIVE _compose_recursive(_, _)
\* Propagator::_compose_recursive; returns <<value, n_bits>>
_compose_recursive(self, components_slice) ==
    IF Len(components_slice) = 1
    THEN <<components_slice[1], self.initial_pattern.n_base_bits>>
    ELSE
        LET mid == Len(components_slice) \div 2
            upper == _compose_recursive(self, SubSeq(components_slice, 1, mid))
            lower == _compose_recursive(self, SubSeq(components_slice, mid + 1, Len(components_slice)))
            upper_half_val == upper[1]
            upper_n_bits == upper[2]
            lower_half_val == lower[1]
            composed_n_bits == upper_n_bits * 2
            composed_val == BitOr(Shl(upper_half_val, upper_n_bits), lower_half_val)
        IN  <<composed_val, composed_n_bits>>

\* compose_from_base testing the range of a component before its membership
compose_from_base_range_first(self, s_base_components) ==
    LET num_components == Len(s_base_components)
        limit_exclusive_base == Shl(1, self.initial_pattern.n_base_bits)
        failing == {i \in 1..num_components :
                       \/ ~contains(self.initial_pattern.s_base_values, s_base_components[i])
                       \/ s_base_components[i] >= limit_exclusive_base}
        comp == s_base_components[Min(failing)]
    IN  IF num_components = 0 \/ ~is_power_of_two(num_components)
        THEN InvalidComponentCount(num_components)
        ELSE IF failing # {}
        THEN IF comp >= limit_exclusive_base
             THEN ValueExceedsNBaseBits(comp, self.initial_pattern.n_base_bits,
                                        limit_exclusive_base - 1)
             ELSE InvalidBaseComponent(comp)
        ELSE Ok(_compose_recursive(self, s_base_components))

\* Propagator::compose_from_base
compose_from_base(self, s_base_components) ==
    LET num_components == Len(s_base_components)
        limit_exclusive_base == Shl(1, self.initial_pattern.n_base_bits)
        \* the iterations of the loop that return an error
        failing == {i \in 1..num_components :
                       \/ ~contains(self.initial_pattern.s_base_values, s_base_components[i])
                       \/ s_base_components[i] >= limit_exclusive_base}
        comp == s_base_components[Min(failing)]
    IN  IF num_components = 0 \/ ~is_power_of_two(num_components)
        THEN InvalidComponentCount(num_components)
        ELSE IF failing # {}
        THEN IF ~contains(self.initial_pattern.s_base_values, comp)
             THEN InvalidBaseComponent(comp)
             ELSE ValueExceedsNBaseBits(comp, self.initial_pattern.n_base_bits,
                                        limit_exclusive_base - 1)
        ELSE Ok(_compose_recursive(self, s_base_components))

\* SliceRandom::choose on the collected base values: the source's next draw
\* is the index it selects
choose(s_base_vec, rng) == s_base_vec[Head(rng) + 1]

RECURSIVE _generate_random_recursive_no_shift(_, _, _)
\* _generate_random_recursive joining the halves without shifting the upper one
_generate_random_recursive_no_shift(self, current_n_bits, rng) ==
    IF current_n_bits = self.initial_pattern.n_base_bits
    THEN [val |-> choose(self.initial_pattern.s_base_values, rng), rng |-> Tail(rng)]
    ELSE
        LET n_half_bits == current_n_bits \div 2
            upper == _generate_random_recursive_no_shift(self, n_half_bits, rng)
            lower == _generate_random_recursive_no_shift(self, n_half_bits, upper.rng)
        IN  [val |-> BitOr(upper.val, lower.val), rng |-> lower.rng]

RECURSIVE _generate_random_recursive(_, _, _)
\* Propagator::_generate_random_recursive; returns the value and the source
\* after the draws it consumed
_generate_random_recursive(self, current_n_bits, rng) ==
    IF current_n_bits = self.initial_pattern.n_base_bits
    THEN [val |-> choose(self.initial_pattern.s_base_values, rng), rng |-> Tail(rng)]
    ELSE
        LET n_half_bits == current_n_bits \div 2
            upper == _generate_random_recursive(self, n_half_bits, rng)
            lower == _generate_random_recursive(self, n_half_bits, upper.rng)
        IN  [val |-> BitOr(Shl(upper.val, n_half_bits), lower.val), rng |-> lower.rng]

\* Propagator::generate_random_s_n_member
generate_random_s_n_member(self, target_n_bits, rng) ==
    IF ~is_valid_hierarchical_level(self, target_n_bits)
    THEN InvalidHierarchicalLevel(target_n_bits, self.initial_pattern.n_base_bits)
    ELSE IF is_empty(self.initial_pattern.s_base_values)
    THEN EmptySBaseForRandomGeneration
    ELSE Ok(_generate_random_recursive(self, target_n_bits, rng).val)

\* ------------------------------------------------------------ wasm_api.rs
\* A u32 is the pair <<high 16 bits, low 16 bits>>, so that arithmetic
\* modulo 2^32 stays inside the integers the model checker can hold.
Half == Pow2(16)

\* u32::wrapping_add
wrapping_add(a, b) ==
    LET low == a[2] + b[2]
    IN  <<(a[1] + b[1] + low \div Half) % Half, low % Half>>

\* static mut GLOBAL_RNG_SEED: u32 = 12345
InitialSeed == <<0, 12345>>

\* SimpleSeededRng::new leaving a zero seed as it is
SimpleSeededRng_new_keep_zero(seed) == [seed |-> seed]

\* SimpleSeededRng::new
SimpleSeededRng_new(seed) == [seed |-> IF seed = <<0, 0>> THEN <<0, 1>> ELSE seed]

\* JsValue::from_str(&format!(text, arg))
JsValue(text, arg) == [kind |-> "JsValue", text |-> text, arg |-> arg]

\* A string is the sequence of its characters.
Digits == <<"0", "1", "2", "3", "4", "5", "6", "7", "8", "9">>

is_digit(c) == \E d \in 1..Len(Digits) : Digits[d] = c

digit_value(c) == (CHOOSE d \in 1..Len(Digits) : Digits[d] = c) - 1

RECURSIVE trim_start(_)
trim_start(str) ==
    IF str # <<>> /\ Head(str) = " " THEN trim_start(Tail(str)) ELSE str

RECURSIVE trim_end(_)
trim_end(str) ==
    IF str # <<>> /\ str[Len(str)] = " "
    THEN trim_end(SubSeq(str, 1, Len(str) - 1))
    ELSE str

\* str::trim
trim(str) == trim_end(trim_start(str))

RECURSIVE parse_digits(_, _)
parse_digits(str, acc) ==
    IF str = <<>> THEN acc
    ELSE parse_digits(Tail(str), acc * Len(Digits) + digit_value(Head(str)))

\* BigUint::from_str in radix 10
from_str(str) ==
    IF str = <<>> \/ \E i \in 1..Len(str) : ~is_digit(str[i])
    THEN [kind |-> "ParseBigIntError"]
    ELSE Ok(parse_digits(str, 0))

RECURSIVE to_string(_)
\* BigUint::to_string
to_string(v) ==
    IF v < Len(Digits) THEN <<Digits[v + 1]>>
    ELSE to_string(v \div Len(Digits)) \o <<Digits[(v % Len(Digits)) + 1]>>

RECURSIVE parse_s_base(_, _)
\* the loop of setup_propagator over s_base_values_str.split(','): the
\* values inserted so far, or the error of the first segment that fails
parse_s_base(segments, s_base) ==
    IF segments = <<>> THEN Ok(s_base)
    ELSE
        LET val_trimmed == trim(Head(segments))
            parsed == from_str(val_trimmed)
        IN  IF val_trimmed = <<>> THEN parse_s_base(Tail(segments), s_base)
            ELSE IF IsOk(parsed)
            THEN parse_s_base(Tail(segments), s_base \cup {parsed.val})
            ELSE JsValue("Invalid BigUint in s_base", val_trimmed)

\* ------------------------------------------------------------- the caller
\* arguments a caller can pass
BaseSets == {S \in SUBSET (0..MaxValue) : Cardinality(S) <= MaxSetSize}

Components == UNION {[1..k -> 0..MaxValue] : k \in 0..MaxComponents}

\* component sequences made of base values only
MemberComponents(self) ==
    UNION {[1..k -> Elems(self.initial_pattern.s_base_values)] : k \in 1..MaxMemberComponents}

\* the draws a randomness source makes during one sampling call: one index
\* into the collected base values per base-level leaf
Sources(self, target_n_bits) ==
    IF is_valid_hierarchical_level(self, target_n_bits)
    THEN [1..(target_n_bits \div self.initial_pattern.n_base_bits)
             -> 0..(Len(self.initial_pattern.s_base_values) - 1)]
    ELSE {<<>>}

\* segments a setup_propagator string can hold between its commas
Segments == {<<>>, <<"0">>, <<"1">>, <<" ", "1">>, <<"1", "0">>, <<"x">>}

\* setup_propagator strings, as what split(',') yields on them
SetupStrings == UNION {[1..k -> Segments] : k \in 1..MaxTokens}

\* seed_offset arguments: 0, 1 and 2^32 - 12346
SeedOffsets == {<<0, 0>>, <<0, 1>>, <<Half - 1, Half - 12346>>}

Call(op, values, n_bits, x, components, rng) ==
    [op |-> op, values |-> values, n_bits |-> n_bits, x |-> x,
     components |-> components, rng |-> rng]

Idle == Call("idle", <<>>, 0, 0, <<>>, <<>>)

Init ==
    /\ propagator = None
    /\ call = Idle
    /\ result = None
    /\ rerun = None
    /\ GLOBAL_PROPAGATOR = None
    /\ GLOBAL_RNG_SEED = InitialSeed
    /\ generated = <<>>
    /\ earlier = None

\* InitialPattern::new(values, n_base_bits), then Propagator::new on success
NewPattern ==
    /\ call = Idle
    /\ propagator = None
    /\ \E S \in BaseSets, n_base_bits \in 0..MaxBaseBits :
       \E values \in IterationOrders(S) :
          LET r == InitialPattern_new(values, n_base_bits)
          IN  /\ call' = Call("new", values, n_base_bits, 0, <<>>, <<>>)
              /\ result' = r
              /\ propagator' = IF IsOk(r) THEN Propagator_new(r.val) ELSE propagator
    /\ rerun' = None
    /\ UNCHANGED binding

\* the level-validity predicate applied to a width
IsValidLevel ==
    /\ call = Idle
    /\ propagator # None
    /\ \E target_n_bits \in 0..MaxLevelBits :
          /\ call' = Call("is_valid_hierarchical_level", <<>>, target_n_bits, 0, <<>>, <<>>)
          /\ result' = Ok(is_valid_hierarchical_level(propagator, target_n_bits))
    /\ UNCHANGED <<propagator, rerun>>
    /\ UNCHANGED binding

\* propagator.is_member(x_target, n_target_bits)
IsMember ==
    /\ call = Idle
    /\ propagator # None
    /\ \E n_target_bits \in 0..MaxMemberBits :
       \E x_target \in 0..Pow2(n_target_bits) :
          /\ call' = Call("is_member", <<>>, n_target_bits, x_target, <<>>, <<>>)
          /\ result' = is_member(propagator, x_target, n_target_bits)
    /\ UNCHANGED <<propagator, rerun>>
    /\ UNCHANGED binding

\* propagator.decompose_to_base(x_target, n_target_bits)
DecomposeToBase ==
    /\ call = Idle
    /\ propagator # None
    /\ \E n_target_bits \in 0..MaxMemberBits :
       \E x_target \in 0..Pow2(n_target_bits) :
          /\ call' = Call("decompose_to_base", <<>>, n_target_bits, x_target, <<>>, <<>>)
          /\ result' = decompose_to_base(propagator, x_target, n_target_bits)
    /\ UNCHANGED <<propagator, rerun>>
    /\ UNCHANGED binding

\* propagator.compose_from_base(s_base_components)
ComposeFromBase ==
    /\ call = Idle
    /\ propagator # None
    /\ \E s_base_components \in Components \cup MemberComponents(propagator) :
          /\ call' = Call("compose_from_base", <<>>, 0, 0, s_base_components, <<>>)
          /\ result' = compose_from_base(propagator, s_base_components)
    /\ UNCHANGED <<propagator, rerun>>
    /\ UNCHANGED binding

\* propagator.generate_random_s_n_member(target_n_bits, rng); `rerun` is the
\* value of the same call in another run of the program, which built its
\* pattern from the same values and width (its HashSet has its own order)
GenerateRandom ==
    /\ call = Idle
    /\ propagator # None
    /\ \E target_n_bits \in 0..MaxMemberBits :
       \E rng \in Sources(propagator, target_n_bits) :
       \E other_values \in IterationOrders(Elems(propagator.initial_pattern.s_base_values)) :
          LET other == InitialPattern_new(other_values, propagator.initial_pattern.n_base_bits)
          IN  /\ call' = Call("generate_random_s_n_member", <<>>, target_n_bits, 0, <<>>, rng)
              /\ result' = generate_random_s_n_member(propagator, target_n_bits, rng)
              /\ rerun' = generate_random_s_n_member(Propagator_new(other.val), target_n_bits, rng)
    /\ UNCHANGED propagator
    /\ UNCHANGED binding

\* PairedEntity::new(x, n_bits)
NewEntity ==
    /\ call = Idle
    /\ \E n_bits \in 0..MaxEntityBits :
       \E x \in 0..Pow2(n_bits) :
          /\ call' = Call("PairedEntity::new", <<>>, n_bits, x, <<>>, <<>>)
          /\ result' = PairedEntity_new(x, n_bits)
    /\ UNCHANGED <<propagator, rerun>>
    /\ UNCHANGED binding

\* PairedEntity::new_canonical_from_x(value, n_bits)
NewCanonicalFromX ==
    /\ call = Idle
    /\ \E n_bits \in 0..MaxEntityBits :
       \E value \in 0..Pow2(n_bits) :
          /\ call' = Call("new_canonical_from_x", <<>>, n_bits, value, <<>>, <<>>)
          /\ result' = new_canonical_from_x(value, n_bits)
    /\ UNCHANGED <<propagator, rerun>>
    /\ UNCHANGED binding

\* PairedEntity::new_from_pair_assert_canonical(val1, val2, n_bits); the two
\* values are recorded as call.components
NewFromPairAssertCanonical ==
    /\ call = Idle
    /\ \E n_bits \in 0..MaxEntityBits :
       \E val1, val2 \in 0..Pow2(n_bits) :
          /\ call' = Call("new_from_pair_assert_canonical", <<>>, n_bits, 0, <<val1, val2>>, <<>>)
          /\ result' = new_from_pair_assert_canonical(val1, val2, n_bits)
    /\ UNCHANGED <<propagator, rerun>>
    /\ UNCHANGED binding

\* the call returns to the caller, which may make the next one
\* wasm setup_propagator(s_base_values_str, n_base_bits); the HashSet it
\* fills iterates in some order
setup_propagator ==
    /\ call = Idle
    /\ \E s_base_values_str \in SetupStrings, n_base_bits \in 0..MaxBindingBaseBits :
          LET s_base == parse_s_base(s_base_values_str, {})
          IN  /\ call' = Call("setup_propagator", s_base_values_str, n_base_bits, 0, <<>>, <<>>)
              /\ IF ~IsOk(s_base)
                 THEN /\ result' = s_base
                      /\ UNCHANGED GLOBAL_PROPAGATOR
                 ELSE \E values \in IterationOrders(s_base.val) :
                         LET pattern == InitialPattern_new(values, n_base_bits)
                         IN  IF IsOk(pattern)
                             THEN /\ GLOBAL_PROPAGATOR' = Propagator_new(pattern.val)
                                  /\ result' = Ok(<<>>)
                             ELSE /\ result' = JsValue("Error creating InitialPattern", pattern)
                                  /\ UNCHANGED GLOBAL_PROPAGATOR
    /\ UNCHANGED <<propagator, rerun, GLOBAL_RNG_SEED, generated, earlier>>

\* wasm generate_random_member(target_n_bits, seed_offset); the indices the
\* seeded generator makes SliceRandom::choose select are left open.  The call
\* is appended to the history with the seed of the generator it created.
generate_random_member ==
    /\ call = Idle
    /\ Len(generated) < MaxCalls
    /\ \E target_n_bits \in 0..MaxBindingBits, seed_offset \in SeedOffsets :
          IF GLOBAL_PROPAGATOR = None
          THEN /\ call' = Call("generate_random_member", seed_offset, target_n_bits, 0, <<>>, <<>>)
               /\ result' = JsValue("Propagator not initialized.", None)
               /\ generated' = Append(generated,
                      [seed_offset |-> seed_offset, installed |-> FALSE, seed |-> <<>>])
               /\ UNCHANGED GLOBAL_RNG_SEED
          ELSE LET current_seed == wrapping_add(GLOBAL_RNG_SEED, seed_offset)
                   rng == SimpleSeededRng_new(current_seed)
               IN  /\ GLOBAL_RNG_SEED' = current_seed
                   /\ generated' = Append(generated,
                          [seed_offset |-> seed_offset, installed |-> TRUE, seed |-> rng.seed])
                   /\ \E draws \in Sources(GLOBAL_PROPAGATOR, target_n_bits) :
                         LET r == generate_random_s_n_member(GLOBAL_PROPAGATOR, target_n_bits, draws)
                         IN  /\ call' = Call("generate_random_member", seed_offset,
                                             target_n_bits, 0, <<>>, draws)
                             /\ result' = IF IsOk(r) THEN Ok(to_string(r.val))
                                          ELSE JsValue("", r)
    /\ UNCHANGED <<propagator, rerun, GLOBAL_PROPAGATOR, earlier>>

\* the call returns to the caller, which may make the next one; `earlier`
\* remembers the generate_random_member call that returned last
Return ==
    /\ call # Idle
    /\ call' = Idle
    /\ result' = None
    /\ rerun' = None
    /\ earlier' = IF call.op = "generate_random_member"
                  THEN [target_n_bits |-> call.n_bits, seed_offset |-> call.values,
                        returned |-> result]
                  ELSE earlier
    /\ UNCHANGED <<propagator, GLOBAL_PROPAGATOR, GLOBAL_RNG_SEED, generated>>

Next ==
    \/ NewPattern
    \/ IsValidLevel
    \/ IsMember
    \/ DecomposeToBase
    \/ ComposeFromBase
    \/ GenerateRandom
    \/ NewEntity
    \/ NewCanonicalFromX
    \/ NewFromPairAssertCanonical
    \/ Return

Spec == Init /\ [][Next]_vars

\* a page driving the wasm binding
WasmNext ==
    \/ setup_propagator
    \/ generate_random_member
    \/ Return

WasmSpec == Init /\ [][WasmNext]_vars

\* ------------------------------------------------------------ properties
\* the arguments of the call and the pattern it was made on
n_base == propagator.initial_pattern.n_base_bits

s_base == Elems(propagator.initial_pattern.s_base_values)

RECURSIVE IsDoubling(_)
\* k is 1, 2, 4, 8, ...
IsDoubling(k) == k = 1 \/ (k > 1 /\ k % 2 = 0 /\ IsDoubling(k \div 2))

\* T is a hierarchy level over base width n
IsLevel(n, T) == T = n \/ (T % n = 0 /\ IsDoubling(T \div n))

\* the i-th (0-based) n-bit field of x, counted from the most significant end of T bits
Field(x, T, n, i) == (x \div Pow2(T - n * (i + 1))) % Pow2(n)

\* C1: round-trip law -- whenever x is a member at level T, decompose_to_base(x, T)
\* succeeds and compose_from_base of its components returns exactly (x, T).
RoundTrip ==
    (call.op = "decompose_to_base" /\ is_member(propagator, call.x, call.n_bits) = Ok(TRUE))
        => /\ IsOk(result)
           /\ compose_from_base(propagator, result.val) = Ok(<<call.x, call.n_bits>>)

\* a member with four base components, not all equal, was decomposed
RoundTripWitness ==
    /\ call.op = "decompose_to_base"
    /\ IsOk(result)
    /\ Len(result.val) = 4
    /\ result.val[1] # result.val[2]
    /\ result.val[2] # result.val[4]

\* C2: at a valid level T and for x < 2^T, is_member returns Ok of the recursive
\* predicate: set membership at T = n_base_bits, otherwise both the upper half
\* x >> (T/2) and the lower half x & (2^(T/2) - 1) are members at width T/2.
MemberIsRecursivePredicate ==
    (call.op = "is_member" /\ IsLevel(n_base, call.n_bits) /\ call.x < Pow2(call.n_bits))
        => LET T == call.n_bits
               upper == call.x \div Pow2(T \div 2)
               lower == call.x % Pow2(T \div 2)
           IN  /\ IsOk(result)
               /\ result.val =
                     IF T = n_base
                     THEN call.x \in s_base
                     ELSE /\ is_member(propagator, upper, T \div 2) = Ok(TRUE)
                          /\ is_member(propagator, lower, T \div 2) = Ok(TRUE)

\* a value two levels above the base whose halves are distinct members
MemberIsRecursivePredicateWitness ==
    /\ call.op = "is_member"
    /\ call.n_bits = 4 * n_base
    /\ result = Ok(TRUE)
    /\ call.x \div Pow2(call.n_bits \div 2) # call.x % Pow2(call.n_bits \div 2)

\* C3: for a member x at a valid level T, decompose_to_base returns exactly
\* T / n_base_bits components, and component i (0-based) is the i-th
\* n_base_bits-wide field of x from the most significant end (pre-order, upper
\* half before lower half).
DecomposeIsFieldsInOrder ==
    (call.op = "decompose_to_base" /\ is_member(propagator, call.x, call.n_bits) = Ok(TRUE))
        => /\ IsOk(result)
           /\ Len(result.val) = call.n_bits \div n_base
           /\ \A i \in 0..(Len(result.val) - 1) :
                 result.val[i + 1] = Field(call.x, call.n_bits, n_base, i)

\* a member with four components whose upper and lower halves differ
DecomposeIsFieldsInOrderWitness ==
    /\ call.op = "decompose_to_base"
    /\ IsOk(result)
    /\ Len(result.val) = 4
    /\ <<result.val[1], result.val[2]>> # <<result.val[3], result.val[4]>>
    /\ result.val[1] # result.val[2]

\* C4: closure of sampling -- at every valid level T and for every sequence of
\* draws of the source, generate_random_s_n_member returns Ok(v) with v < 2^T
\* and is_member(v, T) = Ok(true).
SamplingIsClosed ==
    (call.op = "generate_random_s_n_member" /\ IsLevel(n_base, call.n_bits))
        => /\ IsOk(result)
           /\ result.val < Pow2(call.n_bits)
           /\ is_member(propagator, result.val, call.n_bits) = Ok(TRUE)

\* a value of four base components was sampled from a two-element set with
\* draws that differ
SamplingIsClosedWitness ==
    /\ call.op = "generate_random_s_n_member"
    /\ call.n_bits = 4 * n_base
    /\ IsOk(result)
    /\ Cardinality(s_base) = 2
    /\ call.rng[1] # call.rng[2]
    /\ call.rng[3] # call.rng[4]

\* C5: determinism of sampling -- a second run that builds its pattern from the
\* same values and width and makes the same call with a source making the same
\* draws returns the identical result.
SamplingIsDeterministic ==
    call.op = "generate_random_s_n_member" => rerun = result

\* C6: level validity -- with n_base_bits >= 1 a width T is accepted iff
\* T = n_base_bits, or T % n_base_bits = 0 and T / n_base_bits is a power of two;
\* with n_base_bits = 4, {4, 8, 16, 32} are accepted and {0, 5, 6, 12} rejected.
LevelValidity ==
    call.op = "is_valid_hierarchical_level"
        => /\ n_base >= 1
           /\ result.val = IsLevel(n_base, call.n_bits)
           /\ (n_base = 4 /\ call.n_bits \in {4, 8, 16, 32}) => result.val
           /\ (n_base = 4 /\ call.n_bits \in {0, 5, 6, 12}) => ~result.val
           /\ call.n_bits < n_base => ~result.val

\* width 32 was accepted over base width 4
LevelValidityWitness ==
    /\ call.op = "is_valid_hierarchical_level"
    /\ n_base = 4
    /\ call.n_bits = 32
    /\ result = Ok(TRUE)

\* C7 as claimed: is_member fails with InvalidHierarchicalLevel{T, base} whenever
\* T = 0 or T is not a valid level, for every value x (in or out of range), and
\* fails with ValueTooLargeForNBits when T is a level and x >= 2^T.
IsMemberErrorsAsClaimed ==
    call.op = "is_member"
        => /\ ~IsLevel(n_base, call.n_bits)
                 => result = InvalidHierarchicalLevel(call.n_bits, n_base)
           /\ (IsLevel(n_base, call.n_bits) /\ call.x >= Pow2(call.n_bits))
                 => result = ValueTooLargeForNBits(call.x, call.n_bits)

\* C7 (amended): is_member fails with InvalidHierarchicalLevel{T, base} when
\* T = 0 (for every x) or when T is not a valid level and x < 2^T; it fails with
\* ValueTooLargeForNBits{x, T} when T >= 1 and x >= 2^T, valid level or not.
IsMemberErrorPrecedence ==
    call.op = "is_member"
        => /\ call.n_bits = 0
                 => result = InvalidHierarchicalLevel(0, n_base)
           /\ (call.n_bits >= 1 /\ call.x >= Pow2(call.n_bits))
                 => result = ValueTooLargeForNBits(call.x, call.n_bits)
           /\ (call.n_bits >= 1 /\ call.x < Pow2(call.n_bits) /\ ~IsLevel(n_base, call.n_bits))
                 => result = InvalidHierarchicalLevel(call.n_bits, n_base)
           /\ (IsLevel(n_base, call.n_bits) /\ call.x < Pow2(call.n_bits))
                 => IsOk(result)

\* a value too large for a width that is not a level either
IsMemberErrorPrecedenceWitness ==
    /\ call.op = "is_member"
    /\ call.n_bits >= 1
    /\ ~IsLevel(n_base, call.n_bits)
    /\ call.x >= Pow2(call.n_bits)
    /\ result.kind = "ValueTooLargeForNBits"

\* the indices of the components that are not base values
NonMembers(cs) == {i \in 1..Len(cs) : cs[i] \notin s_base}

\* C8 as claimed: compose_from_base fails with ValueExceedsNBaseBits if any
\* element is >= 2^n_base_bits, and with InvalidBaseComponent if any element is
\* not a member of s_base_values.
ComposeErrorsAsClaimed ==
    call.op = "compose_from_base"
        => /\ (\E i \in 1..Len(call.components) : call.components[i] >= Pow2(n_base))
                 => result.kind = "ValueExceedsNBaseBits"
           /\ NonMembers(call.components) # {}
                 => result.kind = "InvalidBaseComponent"

\* C8 (amended): on a pattern built by InitialPattern::new, an input whose
\* length is a non-zero power of two fails with InvalidBaseComponent(c), c the
\* first element that is not a base value, iff it has such an element; every
\* element >= 2^n_base_bits is one, so ValueExceedsNBaseBits is never returned.
\* An input of any other length fails with InvalidComponentCount(length).
ComposeErrorPrecedence ==
    call.op = "compose_from_base"
        => LET cs == call.components
               counted == Len(cs) >= 1 /\ IsDoubling(Len(cs))
           IN  /\ result.kind # "ValueExceedsNBaseBits"
               /\ \A i \in 1..Len(cs) : cs[i] >= Pow2(n_base) => i \in NonMembers(cs)
               /\ ~counted => result = InvalidComponentCount(Len(cs))
               /\ (counted /\ NonMembers(cs) # {})
                     => result = InvalidBaseComponent(cs[Min(NonMembers(cs))])
               /\ (counted /\ NonMembers(cs) = {}) => IsOk(result)

\* two components, one of them out of base range, rejected as not a base value
ComposeErrorPrecedenceWitness ==
    /\ call.op = "compose_from_base"
    /\ Len(call.components) = 2
    /\ call.components[1] \in s_base
    /\ call.components[2] >= Pow2(n_base)
    /\ result = InvalidBaseComponent(call.components[2])

\* C9: decompose_to_base returns components only when is_member is Ok(true);
\* when is_member is Ok(false) it fails with NotAMember(x); when is_member is an
\* error it fails with that error; a failure carries no components.
DecomposeRequiresMembership ==
    call.op = "decompose_to_base"
        => LET m == is_member(propagator, call.x, call.n_bits)
           IN  /\ IsOk(result) => m = Ok(TRUE)
               /\ m = Ok(TRUE) => IsOk(result)
               /\ m = Ok(FALSE) => result = NotAMember(call.x)
               /\ ~IsOk(m) => result = m
               /\ ~IsOk(result) => "val" \notin DOMAIN result

\* a non-member at a level above the base was refused
DecomposeRequiresMembershipWitness ==
    /\ call.op = "decompose_to_base"
    /\ call.n_bits = 2 * n_base
    /\ result = NotAMember(call.x)
    /\ call.x \div Pow2(n_base) \in s_base

\* C10: InitialPattern::new(values, n) fails with NonPositiveNBits if n = 0,
\* else with EmptySBaseValues if values is empty, else with
\* ValueExceedsNBaseBits{value, n, 2^n - 1} for an element value >= 2^n if there
\* is one; it succeeds iff none of these holds, and then the pattern holds the
\* given values, is non-empty, has n >= 1 and every member < 2^n.
NewPatternValidation ==
    call.op = "new"
        => LET n == call.n_bits
               given == Elems(call.values)
               too_large == {v \in given : v >= Pow2(n)}
           IN  /\ n = 0 => result = NonPositiveNBits(0)
               /\ (n >= 1 /\ given = {}) => result = EmptySBaseValues
               /\ (n >= 1 /\ too_large # {})
                     => /\ result.kind = "ValueExceedsNBaseBits"
                        /\ result.value \in too_large
                        /\ result.n_bits = n
                        /\ result.max_val = Pow2(n) - 1
               /\ (n = 2 /\ given = {0, 1, 4}) => result = ValueExceedsNBaseBits(4, 2, 3)
               /\ IsOk(result) <=> (n >= 1 /\ given # {} /\ too_large = {})
               /\ IsOk(result)
                     => /\ Elems(result.val.s_base_values) = given
                        /\ result.val.n_base_bits = n
                        /\ propagator = Propagator_new(result.val)
                        /\ s_base # {}
                        /\ n_base >= 1
                        /\ \A v \in s_base : v < Pow2(n_base)

\* width 2 and a set holding 4 next to an in-range value: value 4, max_val 3
NewPatternValidationWitness ==
    /\ call.op = "new"
    /\ call.n_bits = 2
    /\ Elems(call.values) = {1, 4}
    /\ result = ValueExceedsNBaseBits(4, 2, 3)

\* C11: for n_bits >= 1 and x < 2^n_bits, PairedEntity::new succeeds, keeps x as
\* given and sets x_prime = 2^n_bits - 1 - x (so x + x_prime = 2^n_bits - 1 and
\* x_prime < 2^n_bits); it fails with NonPositiveNBits when n_bits = 0 and with
\* ValueTooLargeForNBits when x >= 2^n_bits.
EntityIsComplementPair ==
    call.op = "PairedEntity::new"
        => /\ call.n_bits = 0 => result = NonPositiveNBits(0)
           /\ (call.n_bits >= 1 /\ call.x >= Pow2(call.n_bits))
                 => result = ValueTooLargeForNBits(call.x, call.n_bits)
           /\ (call.n_bits >= 1 /\ call.x < Pow2(call.n_bits))
                 => /\ IsOk(result)
                    /\ result.val.x = call.x
                    /\ result.val.n_bits = call.n_bits
                    /\ result.val.x_prime = Pow2(call.n_bits) - 1 - call.x
                    /\ result.val.x + result.val.x_prime = Pow2(call.n_bits) - 1
                    /\ result.val.x_prime < Pow2(call.n_bits)

\* a pair was built from the larger value of a pair: x is kept, not made canonical
EntityIsComplementPairWitness ==
    /\ call.op = "PairedEntity::new"
    /\ call.n_bits = 4
    /\ IsOk(result)
    /\ result.val.x = 12
    /\ result.val.x_prime = 3

\* C12: for n_bits >= 1 and v < 2^n_bits, new_canonical_from_x(v, n_bits) returns
\* a pair with x <= x_prime and x + x_prime = 2^n_bits - 1, and it equals
\* new_canonical_from_x(2^n_bits - 1 - v, n_bits) field for field.
CanonicalIsOrderedAndSymmetric ==
    (call.op = "new_canonical_from_x" /\ call.n_bits >= 1 /\ call.x < Pow2(call.n_bits))
        => LET of_complement == new_canonical_from_x(Pow2(call.n_bits) - 1 - call.x, call.n_bits)
           IN  /\ IsOk(result)
               /\ result.val.x <= result.val.x_prime
               /\ result.val.x + result.val.x_prime = Pow2(call.n_bits) - 1
               /\ result.val.n_bits = call.n_bits
               /\ IsOk(of_complement)
               /\ of_complement.val.x = result.val.x
               /\ of_complement.val.x_prime = result.val.x_prime
               /\ of_complement.val.n_bits = result.val.n_bits

\* the larger value of a pair was given and ended up as x_prime
CanonicalIsOrderedAndSymmetricWitness ==
    /\ call.op = "new_canonical_from_x"
    /\ call.n_bits = 4
    /\ call.x = 12
    /\ IsOk(result)
    /\ result.val.x = 3
    /\ result.val.x_prime = 12

\* C13: with n_bits >= 1 and both operands < 2^n_bits,
\* new_from_pair_assert_canonical fails with
\* NonComplementaryPair{val1, val2_complement: val2, n_bits} iff
\* val1 + val2 # 2^n_bits - 1 (e.g. n_bits = 4, val1 = val2 = 3) and otherwise
\* returns x = min(val1, val2), x_prime = max(val1, val2); an out-of-range
\* operand yields ValueTooLargeForNBits and n_bits = 0 yields NonPositiveNBits,
\* both before the complement check.
AssertedPairIsChecked ==
    call.op = "new_from_pair_assert_canonical"
        => LET n == call.n_bits
               val1 == call.components[1]
               val2 == call.components[2]
               in_range == val1 < Pow2(n) /\ val2 < Pow2(n)
               smaller == IF val1 < val2 THEN val1 ELSE val2
               larger == IF val1 < val2 THEN val2 ELSE val1
           IN  /\ n = 0 => result = NonPositiveNBits(0)
               /\ (n >= 1 /\ ~in_range)
                     => /\ result.kind = "ValueTooLargeForNBits"
                        /\ result.value \in {val1, val2}
                        /\ result.value >= Pow2(n)
                        /\ result.n_bits = n
               /\ (n >= 1 /\ in_range)
                     => /\ result.kind = "NonComplementaryPair" <=> val1 + val2 # Pow2(n) - 1
                        /\ result.kind = "NonComplementaryPair"
                              => result = NonComplementaryPair(val1, val2, n)
                        /\ result.kind # "NonComplementaryPair"
                              => /\ IsOk(result)
                                 /\ result.val.x = smaller
                                 /\ result.val.x_prime = larger
                                 /\ result.val.n_bits = n
               /\ (n = 4 /\ val1 = 3 /\ val2 = 3) => result = NonComplementaryPair(3, 3, 4)

\* complements given larger first come back smaller first
AssertedPairIsCheckedWitness ==
    /\ call.op = "new_from_pair_assert_canonical"
    /\ call.n_bits = 4
    /\ call.components = <<12, 3>>
    /\ IsOk(result)
    /\ result.val.x = 3
    /\ result.val.x_prime = 12

\* C14: compose is the inverse of decompose -- for every sequence cs of base
\* values whose length is a power of two, compose_from_base(cs) returns
\* (v, len(cs) * n_base_bits), that width is a valid level, v < 2^width,
\* is_member(v, width) is true and decompose_to_base(v, width) = cs.
ComposeThenDecompose ==
    (/\ call.op = "compose_from_base"
     /\ Len(call.components) >= 1
     /\ IsDoubling(Len(call.components))
     /\ NonMembers(call.components) = {})
        => /\ IsOk(result)
           /\ LET v == result.val[1]
                  width == result.val[2]
              IN  /\ width = Len(call.components) * n_base
                  /\ IsLevel(n_base, width)
                  /\ v < Pow2(width)
                  /\ is_member(propagator, v, width) = Ok(TRUE)
                  /\ decompose_to_base(propagator, v, width) = Ok(call.components)

\* four base values, first and second halves different, were composed
ComposeThenDecomposeWitness ==
    /\ call.op = "compose_from_base"
    /\ Len(call.components) = 4
    /\ IsOk(result)
    /\ call.components[1] # call.components[2]
    /\ <<call.components[1], call.components[2]>> # <<call.components[3], call.components[4]>>

\* ------------------------------------------------- the wasm seed counter
\* the recorded calls among from..to that were made with a propagator installed
Counted(from, to) == {k \in from..to : generated[k].installed}

RECURSIVE SumOfHalf(_, _)
\* the sum over the calls K of one half of their seed_offset arguments
SumOfHalf(K, half) ==
    IF K = {} THEN 0
    ELSE LET k == CHOOSE k \in K : TRUE
         IN  generated[k].seed_offset[half] + SumOfHalf(K \ {k}, half)

\* (start + the seed_offset arguments of the calls K) mod 2^32
SumMod32(start, K) ==
    LET low == start[2] + SumOfHalf(K, 2)
    IN  <<(start[1] + SumOfHalf(K, 1) + low \div Half) % Half, low % Half>>

\* the counter after the j-th recorded call
CounterAt(j) == SumMod32(InitialSeed, Counted(1, j))

\* a counter value with 0 replaced by 1
ZeroReplaced(c) == IF c = <<0, 0>> THEN <<0, 1>> ELSE c

\* the offsets that advanced the counter after call i, up to and including call j
Intervening(i, j) == SumMod32(<<0, 0>>, Counted(i + 1, j))

\* C15 as stated: every generate_random_member call made with a propagator
\* installed seeds its generator with (12345 + the offsets of this and all
\* earlier such calls) mod 2^32, 0 replaced by 1; calls made with no
\* propagator create no generator and leave the counter alone; and a call
\* that returns the same value as the previous call with the same arguments
\* does so only if the offsets in between (its own) sum to 0 mod 2^32.
SameValueOnlyIfOffsetsCancel ==
    /\ GLOBAL_RNG_SEED = CounterAt(Len(generated))
    /\ \A j \in 1..Len(generated) :
          generated[j].seed = IF generated[j].installed
                              THEN ZeroReplaced(CounterAt(j)) ELSE <<>>
    /\ (/\ call.op = "generate_random_member"
        /\ IsOk(result)
        /\ earlier # None
        /\ earlier.target_n_bits = call.n_bits
        /\ earlier.seed_offset = call.values
        /\ earlier.returned = result)
           => Intervening(Len(generated) - 1, Len(generated)) = <<0, 0>>

\* C15, amended: the seed accounting as stated (the counter is advanced by
\* every call made with a propagator installed, whatever the call returns,
\* by no other call and by no setup_propagator); and two such calls seed
\* their generators alike exactly when the offsets in between sum to 0 mod
\* 2^32 or the counter stood at 0 for one call and at 1 for the other.
SeedIsRunningSum ==
    /\ GLOBAL_RNG_SEED = CounterAt(Len(generated))
    /\ \A j \in 1..Len(generated) :
          generated[j].seed = IF generated[j].installed
                              THEN ZeroReplaced(CounterAt(j)) ELSE <<>>
    /\ \A i, j \in Counted(1, Len(generated)) :
          i < j => ((generated[i].seed = generated[j].seed)
                       <=> \/ Intervening(i, j) = <<0, 0>>
                           \/ {CounterAt(i), CounterAt(j)} = {<<0, 0>>, <<0, 1>>})

\* a second call fails with InvalidHierarchicalLevel on an installed
\* propagator, after the counter wrapped around to 0: it advanced the
\* counter and its generator was seeded with 1
SeedIsRunningSumWitness ==
    /\ call.op = "generate_random_member"
    /\ result.kind = "JsValue"
    /\ result.arg.kind = "InvalidHierarchicalLevel"
    /\ Len(generated) = MaxCalls
    /\ \A j \in 1..Len(generated) : generated[j].installed
    /\ GLOBAL_RNG_SEED = <<0, 0>>
    /\ generated[Len(generated)].seed = <<0, 1>>

====
